---- MODULE Spec2Model ----
(***************************************************************************)
(* Serial circular buffer service (serial_circular_buffer_service.cpp):    *)
(* a receive ring filled by the PDC (peripheral DMA controller), a         *)
(* transmit ring drained by the PDC, and the UART interrupt handler that   *)
(* re-arms the receiver and continues split transmissions.                 *)
(*                                                                         *)
(* Buffer addresses are modelled as indices relative to the buffer base.   *)
(* The k-th byte handed to the transmit call carries the value k, and the  *)
(* k-th byte arriving on the line carries the value k: the code never      *)
(* inspects the data (memcpy, PDC), so distinct values expose every loss,  *)
(* duplication and reordering.                                             *)
(* Indices and counts are uint32_t in the source; all buffer sizes here    *)
(* are far below 2^31, so the int32_t differences of the source do not     *)
(* overflow and plain integers give the same results.                      *)
(***************************************************************************)
EXTENDS Integers, Sequences, FiniteSets, TLC

\* ---------------------------------------------------------------- bounds
\* Tx_buffer_size_in_bytes / Rx_buffer_size_in_bytes given to init()
TxSize == 4
RxSize == 4
\* total number of bytes the application hands to the transmit call
MaxTxBytes == 5
\* total number of bytes arriving on the serial line
MaxRxBytes == 5
\* total number of transmit calls the application makes
MaxTxCalls == 3

VARIABLES
    \* ---- serial_circular_buffer fields
    pdc_tx_buffer,            \* transmit storage: index -> byte
    tx_buffer_head_index,
    tx_buffer_tail_index,
    pdc_Tx_in_progress,
    rx_buffer,                \* receive storage: index -> byte
    rx_buffer_tail_index,
    \* ---- PDC / UART registers
    PERIPH_TPR,               \* transmit pointer (index into pdc_tx_buffer)
    PERIPH_TCR,               \* transmit counter (bytes left to send)
    PERIPH_RPR,               \* receive pointer (index into rx_buffer)
    PERIPH_RCR,               \* receive counter (bytes left to receive)
    UART_IMR,                 \* enabled interrupt sources
    \* ---- mainline position inside copy_packet_into_Tx_buffer_and_transmit
    pc,
    frame,                    \* its arguments and locals
    \* ---- value returned by the last get_latest_byte call
    return_byte,
    \* ---- history
    tx_total,                 \* bytes handed to the transmit call so far
    tx_calls,                 \* transmit calls made so far
    armed,                    \* regions armed for transmit, in arm order:
                              \* [start, data] with data the contents when armed
    rx_total,                 \* bytes received from the line so far
    access                    \* buffer regions touched by the last software operation

vars == << pdc_tx_buffer, tx_buffer_head_index, tx_buffer_tail_index,
           pdc_Tx_in_progress, rx_buffer, rx_buffer_tail_index,
           PERIPH_TPR, PERIPH_TCR, PERIPH_RPR, PERIPH_RCR, UART_IMR,
           pc, frame, return_byte, tx_total, tx_calls, armed, rx_total, access >>

txvars == << pdc_tx_buffer, tx_buffer_head_index, tx_buffer_tail_index,
             pdc_Tx_in_progress, PERIPH_TPR, PERIPH_TCR, tx_total, tx_calls, armed >>
rxvars == << rx_buffer, rx_buffer_tail_index, PERIPH_RPR, PERIPH_RCR,
             return_byte, rx_total >>

\* value read from an address outside a buffer
Garbage == 255

NoFrame == [n |-> 0, data |-> << >>, first |-> 0, second |-> 0, initial |-> 0,
            rollover |-> FALSE]

\* ------------------------------------------------------- pure helpers
\* the bytes of buf at [start, start+len), as the PDC would fetch them
Region(buf, start, len) ==
    [i \in 1..len |-> IF (start + i - 1) \in DOMAIN buf
                      THEN buf[start + i - 1] ELSE Garbage]

\* the record of one HAL_PDC_TX_INIT_NO_NEXT call: where it starts and what
\* the region holds at that moment
Arm(buf, start, len) == [start |-> start, data |-> Region(buf, start, len)]

\* memcpy(&buf[dst], src, n); writes that fall outside buf do not land in it
\* (the regions written are recorded in access), reads past src fetch Garbage
memcpy(buf, dst, src, n) ==
    [i \in DOMAIN buf |->
        IF i >= dst /\ i < dst + n
        THEN (IF (i - dst + 1) \in DOMAIN src THEN src[i - dst + 1] ELSE Garbage)
        ELSE buf[i]]

\* HAL_PDC_READ_RECEIVE_COUNTER_VALUE based head index
get_rx_buffer_head_index(size, rcr) == size - rcr

get_number_of_unread_bytes(size, rcr, tail) ==
    LET difference == get_rx_buffer_head_index(size, rcr) - tail
    IN  IF difference < 0 THEN difference + size ELSE difference

increment_rx_buffer_tail_index(tail, increment_index, size) ==
    (tail + increment_index) % size

\* mutant: the head index advanced without the wrap to the buffer start
increment_tx_buffer_head_index_no_wrap(head, increment_index, size) ==
    head + increment_index

increment_tx_buffer_head_index(head, increment_index, size) ==
    (head + increment_index) % size

\* mutant: the tail index advanced without the wrap to the buffer start
increment_tx_buffer_tail_index_no_wrap(tail, increment_index, size) ==
    tail + increment_index

increment_tx_buffer_tail_index(tail, increment_index, size) ==
    (tail + increment_index) % size

\* mutant: the rolled-over head is not corrected by the buffer size
get_number_of_unsent_bytes_no_rollover(head, tail, size) ==
    LET difference == head - tail
    IN  IF difference < 0 THEN 0 - difference ELSE difference

get_number_of_unsent_bytes(head, tail, size) ==
    LET difference == head - tail
    IN  IF difference < 0 THEN difference + size ELSE difference

\* lines 108-117 of copy_packet_into_Tx_buffer_and_transmit
circular_buffer_rollover_condition(head, n, size) == (n + head) > size

\* mutant: the packet is never split at the end of the buffer
first_contiguous_block_size_no_split(head, n, size) == n

first_contiguous_block_size(head, n, size) ==
    IF circular_buffer_rollover_condition(head, n, size) THEN size - head ELSE n

\* mutant: the block after the wrap is one byte short
second_contiguous_block_size_short(head, n, size) ==
    IF circular_buffer_rollover_condition(head, n, size)
    THEN (n + head) - size - 1 ELSE 0

second_contiguous_block_size(head, n, size) ==
    IF circular_buffer_rollover_condition(head, n, size) THEN (n + head) - size ELSE 0

\* lines 216-225 of the interrupt handler
\* mutant: a single unsent byte is taken for none
tx_has_unsent_bytes_above_one(number_of_unsent_tx_bytes) ==
    number_of_unsent_tx_bytes > 1

\* mutant: the handler always takes the branch that arms the PDC
tx_has_unsent_bytes_always(number_of_unsent_tx_bytes) == TRUE

tx_has_unsent_bytes(number_of_unsent_tx_bytes) == number_of_unsent_tx_bytes # 0

\* mutant: the chunk is not cut at the end of the buffer
number_of_bytes_to_send_no_cut(head, tail, size) ==
    get_number_of_unsent_bytes(head, tail, size)

number_of_bytes_to_send(head, tail, size) ==
    IF head < tail THEN size - tail ELSE get_number_of_unsent_bytes(head, tail, size)

\* the packet of the next transmit call: n fresh bytes
Packet(n) == [i \in 1..n |-> tx_total + i]

\* ------------------------------------------------------ status flags
HAL_UART_IS_RECEIVE_BUFFER_FULL == PERIPH_RCR = 0
\* mutant: the transmit-buffer-empty flag reads as set whatever the counter
HAL_UART_IS_TRANSMIT_BUFFER_EMPTY_always == TRUE

HAL_UART_IS_TRANSMIT_BUFFER_EMPTY == PERIPH_TCR = 0

\* mutant: the receive pointer is reloaded but the counter is not
HAL_PDC_RX_INIT_NO_NEXT_pointer_only(address, size) ==
    /\ PERIPH_RPR' = address
    /\ UNCHANGED PERIPH_RCR

\* HAL_PDC_RX_INIT_NO_NEXT(pdc, address, size): pointer first, then the
\* counter, which starts the transfer
HAL_PDC_RX_INIT_NO_NEXT(address, size) ==
    /\ PERIPH_RPR' = address
    /\ PERIPH_RCR' = size

\* mutant: the receive-buffer-full source does not raise the interrupt
IrqPending_transmit_only ==
    "TXBUFE" \in UART_IMR /\ HAL_UART_IS_TRANSMIT_BUFFER_EMPTY

\* the UART interrupt line is asserted
IrqPending ==
    \/ "RXBUFF" \in UART_IMR /\ HAL_UART_IS_RECEIVE_BUFFER_FULL
    \/ "TXBUFE" \in UART_IMR /\ HAL_UART_IS_TRANSMIT_BUFFER_EMPTY

\* ------------------------------------------------------------- Init
\* The state init() leaves, with the transmit ring idle at any index h
\* (the state after h bytes were sent and drained since init()).
Init ==
    /\ pdc_tx_buffer = [i \in 0..(TxSize - 1) |-> 0]
    /\ tx_buffer_head_index \in 0..(TxSize - 1)
    /\ tx_buffer_tail_index = tx_buffer_head_index
    /\ pdc_Tx_in_progress = FALSE
    /\ rx_buffer = [i \in 0..(RxSize - 1) |-> 0]
    /\ rx_buffer_tail_index = 0
    /\ PERIPH_TPR = 0
    /\ PERIPH_TCR = 0
    /\ PERIPH_RPR = 0
    /\ PERIPH_RCR = RxSize
    /\ UART_IMR = {"RXBUFF"}
    /\ pc = "idle"
    /\ frame = NoFrame
    /\ return_byte = 0
    /\ tx_total = 0
    /\ tx_calls = 0
    /\ armed = << >>
    /\ rx_total = 0
    /\ access = << >>

\* mutant: init() leaves the transmit-buffer-empty interrupt enabled
init_tx_interrupt_enabled ==
    /\ pdc_tx_buffer = [i \in 0..(TxSize - 1) |-> 0]
    /\ tx_buffer_head_index = 0
    /\ tx_buffer_tail_index = 0
    /\ pdc_Tx_in_progress = FALSE
    /\ rx_buffer = [i \in 0..(RxSize - 1) |-> 0]
    /\ rx_buffer_tail_index = 0
    /\ PERIPH_TPR = 0
    /\ PERIPH_TCR = 0
    /\ PERIPH_RPR = 0
    /\ PERIPH_RCR = RxSize
    /\ UART_IMR = {"RXBUFF", "TXBUFE"}
    /\ pc = "idle"
    /\ frame = NoFrame
    /\ return_byte = 0
    /\ tx_total = 0
    /\ tx_calls = 0
    /\ armed = << >>
    /\ rx_total = 0
    /\ access = << >>

\* The state init() itself leaves: all three indices 0, no transfer in
\* progress, the receive PDC armed at the buffer base for RxSize bytes (the
\* transmit PDC registers at their reset value), receive-buffer-full
\* interrupt enabled, transmit-buffer-empty interrupt disabled
init ==
    /\ pdc_tx_buffer = [i \in 0..(TxSize - 1) |-> 0]
    /\ tx_buffer_head_index = 0
    /\ tx_buffer_tail_index = 0
    /\ pdc_Tx_in_progress = FALSE
    /\ rx_buffer = [i \in 0..(RxSize - 1) |-> 0]
    /\ rx_buffer_tail_index = 0
    /\ PERIPH_TPR = 0
    /\ PERIPH_TCR = 0
    /\ PERIPH_RPR = 0
    /\ PERIPH_RCR = RxSize
    /\ UART_IMR = {"RXBUFF"}
    /\ pc = "idle"
    /\ frame = NoFrame
    /\ return_byte = 0
    /\ tx_total = 0
    /\ tx_calls = 0
    /\ armed = << >>
    /\ rx_total = 0
    /\ access = << >>

\* -------------------------------------------------- application calls
\* get_latest_byte(), the whole call
get_latest_byte ==
    /\ pc = "idle"
    /\ return_byte' = Region(rx_buffer, rx_buffer_tail_index, 1)[1]
    /\ rx_buffer_tail_index' =
           increment_rx_buffer_tail_index(rx_buffer_tail_index, 1, RxSize)
    /\ access' = << [op |-> "read", start |-> rx_buffer_tail_index, len |-> 1] >>
    /\ UNCHANGED << rx_buffer, PERIPH_RPR, PERIPH_RCR, rx_total, UART_IMR, pc, frame >>
    /\ UNCHANGED txvars

\* copy_packet_into_Tx_buffer_and_transmit(data, n), the whole call
copy_packet_into_Tx_buffer_and_transmit(n) ==
    LET initial  == tx_buffer_head_index
        rollover == circular_buffer_rollover_condition(tx_buffer_head_index, n, TxSize)
        first    == first_contiguous_block_size(tx_buffer_head_index, n, TxSize)
        second   == second_contiguous_block_size(tx_buffer_head_index, n, TxSize)
        data     == Packet(n)
        buf1     == memcpy(pdc_tx_buffer, tx_buffer_head_index, data, first)
        head1    == increment_tx_buffer_head_index(tx_buffer_head_index, first, TxSize)
        buf2     == IF rollover
                    THEN memcpy(buf1, head1, SubSeq(data, first + 1, n), second)
                    ELSE buf1
        head2    == IF rollover
                    THEN increment_tx_buffer_head_index(head1, second, TxSize)
                    ELSE head1
        copies   == << [op |-> "copy", start |-> initial, len |-> first] >> \o
                    (IF rollover
                     THEN << [op |-> "copy", start |-> head1, len |-> second] >>
                     ELSE << >>)
    IN  /\ pc = "idle"
        /\ tx_total + n <= MaxTxBytes
        /\ tx_calls < MaxTxCalls
        /\ tx_total' = tx_total + n
        /\ tx_calls' = tx_calls + 1
        /\ pdc_tx_buffer' = buf2
        /\ tx_buffer_head_index' = head2
        /\ IF pdc_Tx_in_progress = FALSE
           THEN /\ pdc_Tx_in_progress' = TRUE
                /\ tx_buffer_tail_index' =
                       increment_tx_buffer_tail_index(tx_buffer_tail_index, first, TxSize)
                \* initiate_PDC_Tx(&pdc_tx_buffer[initial], first)
                /\ PERIPH_TPR' = initial
                /\ PERIPH_TCR' = first
                /\ UART_IMR' = UART_IMR \cup {"TXBUFE"}
                /\ armed' = Append(armed, Arm(buf2, initial, first))
                /\ access' = copies \o
                             << [op |-> "arm", start |-> initial, len |-> first] >>
           ELSE /\ UNCHANGED << pdc_Tx_in_progress, tx_buffer_tail_index,
                                PERIPH_TPR, PERIPH_TCR, UART_IMR, armed >>
                /\ access' = copies
        /\ UNCHANGED << rx_buffer, rx_buffer_tail_index, PERIPH_RPR, PERIPH_RCR,
                        return_byte, rx_total, pc, frame >>

\* ------------------------------------------------ interrupt handler
\* serial_circular_buffer_irq_handler(), run to completion
serial_circular_buffer_irq_handler ==
    LET rxfull  == HAL_UART_IS_RECEIVE_BUFFER_FULL
        txempty == HAL_UART_IS_TRANSMIT_BUFFER_EMPTY
        unsent  == get_number_of_unsent_bytes(tx_buffer_head_index,
                                              tx_buffer_tail_index, TxSize)
        tosend  == number_of_bytes_to_send(tx_buffer_head_index,
                                           tx_buffer_tail_index, TxSize)
        rxacc   == IF rxfull
                   THEN << [op |-> "rearm", start |-> 0, len |-> RxSize] >>
                   ELSE << >>
    IN  /\ IF rxfull
           THEN HAL_PDC_RX_INIT_NO_NEXT(0, RxSize)
           ELSE UNCHANGED << PERIPH_RPR, PERIPH_RCR >>
        /\ IF txempty
           THEN IF tx_has_unsent_bytes(unsent)
                THEN /\ PERIPH_TPR' = tx_buffer_tail_index
                     /\ PERIPH_TCR' = tosend
                     /\ UART_IMR' = UART_IMR \cup {"TXBUFE"}
                     /\ armed' = Append(armed, Arm(pdc_tx_buffer,
                                                    tx_buffer_tail_index, tosend))
                     /\ tx_buffer_tail_index' =
                            increment_tx_buffer_tail_index(tx_buffer_tail_index,
                                                           tosend, TxSize)
                     /\ pdc_Tx_in_progress' = TRUE
                     /\ access' = rxacc \o
                            << [op |-> "arm", start |-> tx_buffer_tail_index,
                                len |-> tosend] >>
                ELSE /\ pdc_Tx_in_progress' = FALSE
                     /\ UART_IMR' = UART_IMR \ {"TXBUFE"}
                     /\ access' = rxacc \o << [op |-> "txdone", start |-> 0, len |-> 0] >>
                     /\ UNCHANGED << PERIPH_TPR, PERIPH_TCR, armed,
                                     tx_buffer_tail_index >>
           ELSE /\ access' = rxacc \o << [op |-> "irq", start |-> 0, len |-> 0] >>
                /\ UNCHANGED << PERIPH_TPR, PERIPH_TCR, UART_IMR, armed,
                                tx_buffer_tail_index, pdc_Tx_in_progress >>
        /\ UNCHANGED << pdc_tx_buffer, tx_buffer_head_index, rx_buffer,
                        rx_buffer_tail_index, pc, frame, return_byte,
                        tx_total, tx_calls, rx_total >>

\* UART0_Handler / UART1_Handler: the vector runs the handler while the
\* UART interrupt line is asserted
UART_Handler == IrqPending /\ serial_circular_buffer_irq_handler

\* ------------------------------------------------------- hardware
\* the transmit PDC moves one byte to the UART
PdcTxByte ==
    /\ PERIPH_TCR > 0
    /\ PERIPH_TPR' = PERIPH_TPR + 1
    /\ PERIPH_TCR' = PERIPH_TCR - 1
    /\ UNCHANGED << pdc_tx_buffer, tx_buffer_head_index, tx_buffer_tail_index,
                    pdc_Tx_in_progress, tx_total, tx_calls, armed, UART_IMR, pc,
                    frame, access >>
    /\ UNCHANGED rxvars

\* the receive PDC stores one byte arriving on the line
PdcRxByte ==
    /\ PERIPH_RCR > 0
    /\ rx_total < MaxRxBytes
    /\ rx_total' = rx_total + 1
    /\ rx_buffer' = [rx_buffer EXCEPT ![PERIPH_RPR] = rx_total + 1]
    /\ PERIPH_RPR' = PERIPH_RPR + 1
    /\ PERIPH_RCR' = PERIPH_RCR - 1
    /\ UNCHANGED << rx_buffer_tail_index, return_byte, UART_IMR, pc, frame, access >>
    /\ UNCHANGED txvars

\* ------------------------------------- the transmit call, step by step
\* The same call as the mainline executes it, one statement group per step,
\* so that the interrupt handler can run between any two of them.
\* lines 100-117: arguments, saved head index and block sizes
Tx_enter(n) ==
    /\ pc = "idle"
    /\ tx_total + n <= MaxTxBytes
    /\ tx_calls < MaxTxCalls
    /\ tx_total' = tx_total + n
    /\ tx_calls' = tx_calls + 1
    /\ frame' = [n        |-> n,
                 data     |-> Packet(n),
                 first    |-> first_contiguous_block_size(tx_buffer_head_index, n, TxSize),
                 second   |-> second_contiguous_block_size(tx_buffer_head_index, n, TxSize),
                 initial  |-> tx_buffer_head_index,
                 rollover |-> circular_buffer_rollover_condition(tx_buffer_head_index,
                                                                 n, TxSize)]
    /\ pc' = "copy_first"
    /\ access' = << >>
    /\ UNCHANGED << pdc_tx_buffer, tx_buffer_head_index, tx_buffer_tail_index,
                    pdc_Tx_in_progress, PERIPH_TPR, PERIPH_TCR, UART_IMR, armed >>
    /\ UNCHANGED rxvars

\* lines 120-121
Tx_copy_first ==
    /\ pc = "copy_first"
    /\ pdc_tx_buffer' = memcpy(pdc_tx_buffer, tx_buffer_head_index,
                               frame.data, frame.first)
    /\ tx_buffer_head_index' =
           increment_tx_buffer_head_index(tx_buffer_head_index, frame.first, TxSize)
    /\ access' = Append(access, [op |-> "copy", start |-> tx_buffer_head_index,
                                 len |-> frame.first])
    /\ pc' = IF frame.rollover THEN "copy_second" ELSE "test"
    /\ UNCHANGED << tx_buffer_tail_index, pdc_Tx_in_progress, PERIPH_TPR, PERIPH_TCR,
                    UART_IMR, armed, tx_total, tx_calls, frame >>
    /\ UNCHANGED rxvars

\* lines 124-128
Tx_copy_second ==
    /\ pc = "copy_second"
    /\ pdc_tx_buffer' = memcpy(pdc_tx_buffer, tx_buffer_head_index,
                               SubSeq(frame.data, frame.first + 1, frame.n),
                               frame.second)
    /\ tx_buffer_head_index' =
           increment_tx_buffer_head_index(tx_buffer_head_index, frame.second, TxSize)
    /\ access' = Append(access, [op |-> "copy", start |-> tx_buffer_head_index,
                                 len |-> frame.second])
    /\ pc' = "test"
    /\ UNCHANGED << tx_buffer_tail_index, pdc_Tx_in_progress, PERIPH_TPR, PERIPH_TCR,
                    UART_IMR, armed, tx_total, tx_calls, frame >>
    /\ UNCHANGED rxvars

\* line 131: the test of pdc_Tx_in_progress
Tx_test ==
    /\ pc = "test"
    /\ pc' = IF pdc_Tx_in_progress = FALSE THEN "set" ELSE "idle"
    /\ UNCHANGED << pdc_tx_buffer, tx_buffer_head_index, tx_buffer_tail_index,
                    pdc_Tx_in_progress, PERIPH_TPR, PERIPH_TCR, UART_IMR, armed,
                    tx_total, tx_calls, frame, access >>
    /\ UNCHANGED rxvars

\* line 133
Tx_set ==
    /\ pc = "set"
    /\ pdc_Tx_in_progress' = TRUE
    /\ pc' = "preload"
    /\ UNCHANGED << pdc_tx_buffer, tx_buffer_head_index, tx_buffer_tail_index,
                    PERIPH_TPR, PERIPH_TCR, UART_IMR, armed,
                    tx_total, tx_calls, frame, access >>
    /\ UNCHANGED rxvars

\* line 136: the tail "pre-load"
Tx_preload ==
    /\ pc = "preload"
    /\ tx_buffer_tail_index' =
           increment_tx_buffer_tail_index(tx_buffer_tail_index, frame.first, TxSize)
    /\ pc' = "arm"
    /\ UNCHANGED << pdc_tx_buffer, tx_buffer_head_index, pdc_Tx_in_progress,
                    PERIPH_TPR, PERIPH_TCR, UART_IMR, armed,
                    tx_total, tx_calls, frame, access >>
    /\ UNCHANGED rxvars

\* line 137 -> line 184: HAL_PDC_TX_INIT_NO_NEXT
Tx_arm ==
    /\ pc = "arm"
    /\ PERIPH_TPR' = frame.initial
    /\ PERIPH_TCR' = frame.first
    /\ armed' = Append(armed, Arm(pdc_tx_buffer, frame.initial, frame.first))
    /\ access' = Append(access, [op |-> "arm", start |-> frame.initial,
                                 len |-> frame.first])
    /\ pc' = "enable"
    /\ UNCHANGED << pdc_tx_buffer, tx_buffer_head_index, tx_buffer_tail_index,
                    pdc_Tx_in_progress, UART_IMR, tx_total, tx_calls, frame >>
    /\ UNCHANGED rxvars

\* line 185: HAL_UART_ENABLE_TX_BUFFER_EMPTY_INTERRUPT, then return
Tx_enable ==
    /\ pc = "enable"
    /\ UART_IMR' = UART_IMR \cup {"TXBUFE"}
    /\ pc' = "idle"
    /\ UNCHANGED << pdc_tx_buffer, tx_buffer_head_index, tx_buffer_tail_index,
                    pdc_Tx_in_progress, PERIPH_TPR, PERIPH_TCR, armed,
                    tx_total, tx_calls, frame, access >>
    /\ UNCHANGED rxvars

\* ------------------------------------------------- specifications
\* the application reads only when get_number_of_unread_bytes() says there
\* is something to read (the documented use of get_latest_byte)
ReadWhenUnread ==
    /\ get_number_of_unread_bytes(RxSize, PERIPH_RCR, rx_buffer_tail_index) > 0
    /\ get_latest_byte

\* Whole calls and whole handler invocations
Next ==
    \/ \E n \in 0..TxSize : copy_packet_into_Tx_buffer_and_transmit(n)
    \/ ReadWhenUnread
    \/ UART_Handler
    \/ PdcTxByte
    \/ PdcRxByte

Spec == Init /\ [][Next]_vars

\* The transmit call interleaved with the interrupt handler: the handler may
\* run between any two steps of the call whenever the interrupt line is asserted
NextIrq ==
    \/ \E n \in 0..TxSize : Tx_enter(n)
    \/ Tx_copy_first
    \/ Tx_copy_second
    \/ Tx_test
    \/ Tx_set
    \/ Tx_preload
    \/ Tx_arm
    \/ Tx_enable
    \/ UART_Handler
    \/ PdcTxByte
    \/ PdcRxByte

SpecIrq == Init /\ [][NextIrq]_vars

\* One transmit call on an idle ring, then only the hardware and the handler
OneCall ==
    /\ tx_calls = 0
    /\ \E n \in 1..TxSize : copy_packet_into_Tx_buffer_and_transmit(n)

NextDrain ==
    \/ OneCall
    \/ UART_Handler
    \/ PdcTxByte
    \/ PdcRxByte

\* the PDC keeps sending while its counter is non-zero, and the NVIC runs the
\* handler while the interrupt line stays asserted
SpecDrain == Init /\ [][NextDrain]_vars /\ WF_vars(PdcTxByte) /\ WF_vars(UART_Handler)

\* Whole calls and whole handler invocations, from the state init() leaves
SpecInit == init /\ [][Next]_vars

\* Transmit calls of at least one byte, each within the buffer size
NextNonEmpty ==
    \/ \E n \in 1..TxSize : copy_packet_into_Tx_buffer_and_transmit(n)
    \/ ReadWhenUnread
    \/ UART_Handler
    \/ PdcTxByte
    \/ PdcRxByte

SpecNonEmpty == Init /\ [][NextNonEmpty]_vars

\* A transmit call of n bytes made when the ring reports room for it:
\* n <= TxSize - 1 - get_number_of_unsent_bytes()
GuardedCall(n) ==
    /\ n <= TxSize - 1 - get_number_of_unsent_bytes(tx_buffer_head_index,
                                                    tx_buffer_tail_index, TxSize)
    /\ copy_packet_into_Tx_buffer_and_transmit(n)

\* Whole calls of at least one byte that fit the reported room, whole handler
\* invocations between them
NextRoom ==
    \/ \E n \in 1..(TxSize - 1) : GuardedCall(n)
    \/ ReadWhenUnread
    \/ UART_Handler
    \/ PdcTxByte
    \/ PdcRxByte

SpecRoom == Init /\ [][NextRoom]_vars

\* Calls that break the documented preconditions: packets longer than the
\* transmit buffer, and reads with nothing unread
NextContract ==
    \/ \E n \in 0..MaxTxBytes : copy_packet_into_Tx_buffer_and_transmit(n)
    \/ get_latest_byte
    \/ UART_Handler
    \/ PdcTxByte
    \/ PdcRxByte

SpecContract == Init /\ [][NextContract]_vars

\* ------------------------------------------------------- properties
RECURSIVE Flat(_)
\* the armed regions' contents, concatenated in arm order
Flat(regions) ==
    IF regions = << >> THEN << >>
    ELSE Head(regions).data \o Flat(Tail(regions))

\* the bytes handed to the transmit call so far, in call order
Enqueued == [i \in 1..tx_total |-> i]

IsPrefix(s, t) == Len(s) <= Len(t) /\ \A i \in 1..Len(s) : s[i] = t[i]

UnsentBytes == get_number_of_unsent_bytes(tx_buffer_head_index,
                                          tx_buffer_tail_index, TxSize)
UnreadBytes == get_number_of_unread_bytes(RxSize, PERIPH_RCR, rx_buffer_tail_index)

\* C1: starting idle at any index, as long as the calls' lengths sum to at
\* most TxSize, the armed regions concatenated in arm order are a prefix of
\* the enqueued bytes, and are all of them once pdc_Tx_in_progress is false.
C1_ArmedEqualsEnqueued ==
    tx_total <= TxSize =>
        /\ IsPrefix(Flat(armed), Enqueued)
        /\ (pdc_Tx_in_progress = FALSE => Flat(armed) = Enqueued)

\* C2: between the call's test of pdc_Tx_in_progress (line 131) and its arm
\* (line 137) the interrupt handler never runs its transmit branch, which
\* reads the tail index and writes the tail index and pdc_Tx_in_progress.
C2_HandlerExcludedFromCriticalSection ==
    [][(pc = "set" \/ pc = "preload" \/ pc = "arm")
          => ~(UART_Handler /\ HAL_UART_IS_TRANSMIT_BUFFER_EMPTY)]_vars

\* C3: pdc_Tx_in_progress = FALSE implies no unsent bytes, tail = head.
C3_IdleImpliesNothingUnsent ==
    pdc_Tx_in_progress = FALSE =>
        UnsentBytes = 0 /\ tx_buffer_tail_index = tx_buffer_head_index

C3_Witness ==
    /\ pdc_Tx_in_progress = FALSE
    /\ Len(armed) >= 2
    /\ tx_total = TxSize + 1
    /\ access[Len(access)].op = "txdone"

\* C4: a transmit call of length 0 changes nothing: storage, head, tail,
\* pdc_Tx_in_progress, the transmit PDC registers and the interrupt mask.
C4_ZeroLengthIsNoOp ==
    [][copy_packet_into_Tx_buffer_and_transmit(0)
          => UNCHANGED << pdc_tx_buffer, tx_buffer_head_index, tx_buffer_tail_index,
                          pdc_Tx_in_progress, PERIPH_TPR, PERIPH_TCR, UART_IMR,
                          armed >>]_vars

\* C5: get_number_of_unread_bytes() is in 0..RxSize-1 for every tail and
\* every value of the receive counter, 0 included.
C5_UnreadInRange == UnreadBytes \in 0..(RxSize - 1)

\* C6: head and tail stay in 0..TxSize-1, and get_number_of_unsent_bytes()
\* is in 0..TxSize-1 and equals (head - tail + TxSize) mod TxSize.
C6_UnsentInRange ==
    /\ tx_buffer_head_index \in 0..(TxSize - 1)
    /\ tx_buffer_tail_index \in 0..(TxSize - 1)
    /\ UnsentBytes \in 0..(TxSize - 1)
    /\ UnsentBytes = (tx_buffer_head_index - tx_buffer_tail_index + TxSize) % TxSize

C6_Witness ==
    /\ tx_buffer_head_index < tx_buffer_tail_index
    /\ UnsentBytes = TxSize - 1
    /\ pdc_Tx_in_progress = TRUE
    /\ tx_calls >= 2

\* C7: after one call of 1..TxSize bytes on an idle ring, pdc_Tx_in_progress
\* becomes false again; the handler arms at most twice on the way; and when
\* it is false, tail = head and nothing is unsent.
C7_RoundTripDrain ==
    /\ (pdc_Tx_in_progress = TRUE) ~> (pdc_Tx_in_progress = FALSE)
    /\ [](Len(armed) <= 1 + 2)
    /\ [](pdc_Tx_in_progress = FALSE
            => tx_buffer_tail_index = tx_buffer_head_index /\ UnsentBytes = 0)

C7_Witness ==
    /\ tx_calls = 1
    /\ tx_total = TxSize
    /\ Len(armed) = 2
    /\ pdc_Tx_in_progress = FALSE
    /\ tx_buffer_tail_index = tx_buffer_head_index
    /\ tx_buffer_head_index # 0

\* C8: every region copied into or armed from the transmit ring, every
\* receive re-arm and every read lies inside its buffer, and the PDC
\* pointers never leave the regions they were armed with.
InsideTx(a) == a.start >= 0 /\ a.len >= 0 /\ a.start + a.len <= TxSize
InsideRx(a) == a.start >= 0 /\ a.len >= 0 /\ a.start + a.len <= RxSize

C8_AccessesInBounds ==
    /\ \A i \in 1..Len(access) :
           /\ access[i].op \in {"copy", "arm"} => InsideTx(access[i])
           /\ access[i].op \in {"read", "rearm"} => InsideRx(access[i])
    /\ PERIPH_TPR >= 0 /\ PERIPH_TPR + PERIPH_TCR <= TxSize
    /\ PERIPH_RPR >= 0 /\ PERIPH_RPR + PERIPH_RCR <= RxSize
    /\ rx_buffer_tail_index \in 0..(RxSize - 1)

C8_Witness ==
    /\ Len(access) = 3
    /\ access[1].op = "copy" /\ access[1].start + access[1].len = TxSize
    /\ access[2].op = "copy" /\ access[2].start = 0 /\ access[2].len = access[1].start
    /\ access[3].op = "arm" /\ access[3].start + access[3].len = TxSize
    /\ access[1].start > 0

\* C9: get_number_of_unread_bytes() = (head - tail + RxSize) mod RxSize with
\* head = RxSize - receive counter.
C9_UnreadIsModularDifference ==
    UnreadBytes = ((RxSize - PERIPH_RCR) - rx_buffer_tail_index + RxSize) % RxSize

\* C10: get_latest_byte() returns rx_buffer[tail] and advances the tail by
\* one modulo RxSize; called with unread bytes, it lowers the unread count by
\* exactly one and returns the oldest unread byte, which arrived after every
\* byte returned before.
C10_ReadNextByte ==
    [][get_latest_byte =>
          /\ return_byte' = rx_buffer[rx_buffer_tail_index]
          /\ rx_buffer_tail_index' = (rx_buffer_tail_index + 1) % RxSize
          /\ (UnreadBytes > 0 =>
                 /\ UnreadBytes' = UnreadBytes - 1
                 /\ return_byte' = rx_total - UnreadBytes + 1
                 /\ return_byte' > return_byte)]_vars

\* C11: a transmit call longer than the transmit buffer changes nothing
\* (storage, head, tail, pdc_Tx_in_progress, PDC registers, interrupt mask)
\* and copies nothing outside the buffer.
C11_OversizeCallRejected ==
    [][(\E n \in (TxSize + 1)..MaxTxBytes : copy_packet_into_Tx_buffer_and_transmit(n))
          => /\ UNCHANGED << pdc_tx_buffer, tx_buffer_head_index, tx_buffer_tail_index,
                             pdc_Tx_in_progress, PERIPH_TPR, PERIPH_TCR, UART_IMR,
                             armed >>
             /\ \A i \in 1..Len(access') :
                    access'[i].op = "copy" => InsideTx(access'[i])]_vars

\* C12: get_latest_byte() called with nothing unread returns no byte and
\* leaves the tail index where it is, so that nothing is unread afterwards.
C12_EmptyReadRejected ==
    [][(UnreadBytes = 0 /\ get_latest_byte)
          => /\ rx_buffer_tail_index' = rx_buffer_tail_index
             /\ return_byte' = return_byte
             /\ UnreadBytes' = 0]_vars

\* C13: a call of length L in 1..TxSize on an idle ring with head = tail = h
\* stores the first min(L, TxSize - h) bytes at h.. and the rest at 0.., ends
\* with head = (h + L) mod TxSize, sets pdc_Tx_in_progress, preloads the tail
\* to (h + first) mod TxSize and arms the PDC exactly once, for the first
\* segment at h; the second segment is not armed by the call.
\* Example: size 8, h 6, L 5 arms 2 bytes at 6, tail 0, head 3.
C13_Example ==
    /\ first_contiguous_block_size(6, 5, 8) = 2
    /\ second_contiguous_block_size(6, 5, 8) = 3
    /\ increment_tx_buffer_tail_index(6, first_contiguous_block_size(6, 5, 8), 8) = 0
    /\ increment_tx_buffer_head_index(
           increment_tx_buffer_head_index(6, first_contiguous_block_size(6, 5, 8), 8),
           second_contiguous_block_size(6, 5, 8), 8) = 3

C13_IdleEnqueue ==
    [][/\ C13_Example
       /\ \A L \in 1..TxSize :
            (/\ pdc_Tx_in_progress = FALSE
             /\ tx_buffer_head_index = tx_buffer_tail_index
             /\ copy_packet_into_Tx_buffer_and_transmit(L))
            => LET h      == tx_buffer_head_index
                   first  == IF L < TxSize - h THEN L ELSE TxSize - h
                   second == L - first
               IN  /\ \A i \in 0..(first - 1) :
                          pdc_tx_buffer'[h + i] = tx_total + 1 + i
                   /\ \A i \in 0..(second - 1) :
                          pdc_tx_buffer'[i] = tx_total + first + 1 + i
                   /\ \A i \in 0..(TxSize - 1) :
                          (~(i >= h /\ i < h + first) /\ ~(i < second))
                              => pdc_tx_buffer'[i] = pdc_tx_buffer[i]
                   /\ tx_buffer_head_index' = (h + L) % TxSize
                   /\ pdc_Tx_in_progress' = TRUE
                   /\ tx_buffer_tail_index' = (h + first) % TxSize
                   /\ PERIPH_TPR' = h
                   /\ PERIPH_TCR' = first
                   /\ armed' = Append(armed,
                          [start |-> h, data |-> [i \in 1..first |-> tx_total + i]])
                   /\ Cardinality({i \in 1..Len(access') : access'[i].op = "arm"}) = 1]_vars

\* an idle call that wrapped: two copies, one arm for the first segment, the
\* tail preloaded to the buffer start and the head after the second segment
C13_Witness ==
    /\ Len(access) = 3
    /\ access[1].op = "copy" /\ access[2].op = "copy" /\ access[3].op = "arm"
    /\ access[2].start = 0 /\ access[2].len > 0
    /\ access[3].start = access[1].start /\ access[3].len = access[1].len
    /\ pdc_Tx_in_progress = TRUE
    /\ tx_buffer_tail_index = 0
    /\ tx_buffer_head_index = access[2].len
    /\ PERIPH_TCR = access[3].len

\* C14: a handler run that finds the transmitter empty and bytes unsent arms
\* the PDC exactly once at the current tail, for TxSize - tail bytes when
\* head < tail and for all unsent bytes otherwise, advances the tail by that
\* count modulo TxSize, leaves the head alone and leaves pdc_Tx_in_progress
\* true.  Example: size 8, head 3, tail 0 arms 3 bytes at 0, tail becomes 3
\* and the next completion finds nothing unsent.
C14_Example ==
    /\ number_of_bytes_to_send(3, 0, 8) = 3
    /\ increment_tx_buffer_tail_index(0, number_of_bytes_to_send(3, 0, 8), 8) = 3
    /\ get_number_of_unsent_bytes(3, 3, 8) = 0

C14_CompletionArmsNextChunk ==
    [][/\ C14_Example
       /\ (UART_Handler /\ PERIPH_TCR = 0 /\ UnsentBytes > 0)
          => LET count == IF tx_buffer_head_index < tx_buffer_tail_index
                          THEN TxSize - tx_buffer_tail_index
                          ELSE UnsentBytes
             IN  /\ PERIPH_TPR' = tx_buffer_tail_index
                 /\ PERIPH_TCR' = count
                 /\ armed' = Append(armed,
                        [start |-> tx_buffer_tail_index,
                         data  |-> [i \in 1..count |->
                                       pdc_tx_buffer[tx_buffer_tail_index + i - 1]]])
                 /\ Cardinality({i \in 1..Len(access') : access'[i].op = "arm"}) = 1
                 /\ tx_buffer_tail_index' = (tx_buffer_tail_index + count) % TxSize
                 /\ tx_buffer_head_index' = tx_buffer_head_index
                 /\ pdc_Tx_in_progress' = TRUE]_vars

\* the handler has just armed the chunk that ends at the end of the buffer
\* while the head had wrapped: the tail is back at 0 and bytes remain unsent
C14_Witness ==
    /\ Len(access) >= 1
    /\ access[Len(access)].op = "arm"
    /\ \A i \in 1..Len(access) : access[i].op # "copy"
    /\ access[Len(access)].start + access[Len(access)].len = TxSize
    /\ tx_buffer_tail_index = 0
    /\ tx_buffer_head_index > 0
    /\ pdc_Tx_in_progress = TRUE

\* C15: pdc_Tx_in_progress goes from false to true only at line 133 of the
\* transmit call, and from true to false only in a handler run that finds
\* nothing unsent, for every point at which the handler preempts the call.
C15_InProgressTransitions ==
    [][/\ (pdc_Tx_in_progress = FALSE /\ pdc_Tx_in_progress' = TRUE)
              => (pc = "set" /\ pc' = "preload")
       /\ (pdc_Tx_in_progress = TRUE /\ pdc_Tx_in_progress' = FALSE)
              => (UART_Handler /\ UnsentBytes = 0)]_vars

\* C16: a call of length L >= 1 made while pdc_Tx_in_progress is true only
\* copies the bytes and advances the head by L modulo TxSize; the tail,
\* pdc_Tx_in_progress and the PDC are untouched by the call, and the bytes
\* are armed later by the handler: once the transmitter is idle again every
\* enqueued byte has been armed.
C16_BusyEnqueueOnlyCopies ==
    /\ [][\A L \in 1..TxSize :
            (pdc_Tx_in_progress = TRUE /\ copy_packet_into_Tx_buffer_and_transmit(L))
            => /\ tx_buffer_head_index' = (tx_buffer_head_index + L) % TxSize
               /\ UNCHANGED << tx_buffer_tail_index, pdc_Tx_in_progress,
                               PERIPH_TPR, PERIPH_TCR, UART_IMR, armed >>
               /\ \A i \in 1..Len(access') : access'[i].op = "copy"]_vars
    /\ [](pdc_Tx_in_progress = FALSE => Flat(armed) = Enqueued)

\* the part of C16 about the call itself, without the later arming
C16_BusyEnqueueFrame ==
    [][\A L \in 1..TxSize :
            (pdc_Tx_in_progress = TRUE /\ copy_packet_into_Tx_buffer_and_transmit(L))
            => /\ tx_buffer_head_index' = (tx_buffer_head_index + L) % TxSize
               /\ UNCHANGED << tx_buffer_tail_index, pdc_Tx_in_progress,
                               PERIPH_TPR, PERIPH_TCR, UART_IMR, armed >>
               /\ \A i \in 1..Len(access') : access'[i].op = "copy"]_vars

\* C17: a handler run that finds the transmitter empty and nothing unsent
\* clears pdc_Tx_in_progress and disables the transmit-empty interrupt; it
\* does not arm the PDC and leaves the head and the tail alone.
C17_CompletionWithNothingUnsent ==
    [][(UART_Handler /\ PERIPH_TCR = 0 /\ UnsentBytes = 0)
          => /\ pdc_Tx_in_progress' = FALSE
             /\ "TXBUFE" \notin UART_IMR'
             /\ UNCHANGED << PERIPH_TPR, PERIPH_TCR, armed,
                             tx_buffer_head_index, tx_buffer_tail_index >>
             /\ \A i \in 1..Len(access') : access'[i].op # "arm"]_vars

\* the handler has just closed a transfer that had been armed
C17_Witness ==
    /\ Len(access) >= 1
    /\ access[Len(access)].op = "txdone"
    /\ Len(armed) >= 1
    /\ Flat(armed) = Enqueued
    /\ tx_total >= 1
    /\ pdc_Tx_in_progress = FALSE
    /\ "TXBUFE" \notin UART_IMR

\* C18: a handler run that finds the receive buffer full re-arms the
\* receive PDC at the buffer base for RxSize bytes (head index 0 again) and
\* leaves the rx tail alone; a handler run with a non-zero receive counter
\* does not re-arm, leaves the rx tail alone, and the head index and the
\* number of unread bytes are the same before and after.
C18_ReceiveFullRearm ==
    [][UART_Handler
          => /\ rx_buffer_tail_index' = rx_buffer_tail_index
             /\ (PERIPH_RCR = 0
                    => /\ PERIPH_RPR' = 0
                       /\ PERIPH_RCR' = RxSize
                       /\ RxSize - PERIPH_RCR' = 0)
             /\ (PERIPH_RCR # 0
                    => /\ UNCHANGED << PERIPH_RPR, PERIPH_RCR >>
                       /\ RxSize - PERIPH_RCR' = RxSize - PERIPH_RCR
                       /\ UnreadBytes' = UnreadBytes
                       /\ \A i \in 1..Len(access') : access'[i].op # "rearm")]_vars

\* the handler has just re-armed a receive buffer that filled up while the
\* application had read part of it
C18_Witness ==
    /\ Len(access) >= 1
    /\ access[1].op = "rearm"
    /\ PERIPH_RCR = RxSize
    /\ PERIPH_RPR = 0
    /\ rx_total >= RxSize
    /\ rx_buffer_tail_index > 0

\* C19: reception never stops.  Whenever the receive counter reaches zero the
\* receive PDC is eventually re-armed at the buffer base for RxSize bytes
\* (the interrupt being delivered and the handler run), and the
\* receive-buffer-full interrupt is never disabled.
C19_ReceptionNeverStops ==
    /\ (PERIPH_RCR = 0) ~> (PERIPH_RCR = RxSize /\ PERIPH_RPR = 0)
    /\ []("RXBUFF" \in UART_IMR)

\* the receive buffer has filled once and has been re-armed
C19_Witness ==
    /\ rx_total = RxSize
    /\ PERIPH_RCR = RxSize
    /\ PERIPH_RPR = 0
    /\ "RXBUFF" \in UART_IMR
    /\ Len(access) >= 1
    /\ access[1].op = "rearm"

\* C20: a handler run while the transmit counter is non-zero (for instance
\* one entered for receive-buffer-full during a transfer) leaves the tx
\* head, the tx tail and pdc_Tx_in_progress alone and does not arm the
\* transmit PDC; and no handler run changes the tx head.
C20_HandlerLeavesTransmitAlone ==
    [][UART_Handler
          => /\ tx_buffer_head_index' = tx_buffer_head_index
             /\ pdc_tx_buffer' = pdc_tx_buffer
             /\ (PERIPH_TCR # 0
                    => /\ UNCHANGED << tx_buffer_tail_index, pdc_Tx_in_progress,
                                       PERIPH_TPR, PERIPH_TCR, armed, UART_IMR >>
                       /\ \A i \in 1..Len(access') : access'[i].op # "arm")]_vars

\* the handler has just served receive-buffer-full while a transmit transfer
\* was still in flight
C20_Witness ==
    /\ Len(access) = 2
    /\ access[1].op = "rearm"
    /\ access[2].op = "irq"
    /\ PERIPH_TCR > 0
    /\ pdc_Tx_in_progress = TRUE
    /\ PERIPH_RCR = RxSize

\* C21: the transmit PDC is armed only when the transfer armed before it has
\* completed (transmit counter zero), so at most one transfer is outstanding,
\* for every point at which the handler preempts the transmit call.
C21_OneTransferOutstanding ==
    [][armed' # armed => PERIPH_TCR = 0]_vars

\* the ring indices of the region armed last, whose completion the handler
\* has not yet served while pdc_Tx_in_progress is true
InFlight ==
    IF pdc_Tx_in_progress = TRUE /\ Len(armed) >= 1
    THEN {armed[Len(armed)].start + j : j \in 0..(Len(armed[Len(armed)].data) - 1)}
    ELSE {}

\* C22: a transmit call whose length fits TxSize - 1 - unsent never writes a
\* ring index of the region that is armed and whose completion interrupt has
\* not yet been handled.
C22_NoOverwriteInFlight ==
    [][\A L \in 1..(TxSize - 1) :
          GuardedCall(L)
          => {(tx_buffer_head_index + i) % TxSize : i \in 0..(L - 1)}
                 \cap InFlight = {}]_vars

\* C23: with whole calls of 1..TxSize - 1 - unsent bytes made in any transmit
\* state and handler runs only between them, the armed regions follow one
\* another round the ring, each inside the buffer, and hold the enqueued
\* bytes once each in enqueue order; the enqueued bytes not yet armed always
\* number get_number_of_unsent_bytes(), and none is left when the
\* transmitter is idle.
C23_ArmedOnceInOrder ==
    /\ IsPrefix(Flat(armed), Enqueued)
    /\ tx_total - Len(Flat(armed)) = UnsentBytes
    /\ \A k \in 1..Len(armed) :
          /\ armed[k].start >= 0
          /\ armed[k].start + Len(armed[k].data) <= TxSize
          /\ k > 1 => armed[k].start =
                 (armed[k - 1].start + Len(armed[k - 1].data)) % TxSize
    /\ (pdc_Tx_in_progress = FALSE => Flat(armed) = Enqueued)

\* calls made while sending have taken the head round the end of the buffer
\* and the handler has armed the two parts one after the other
C23_Witness ==
    /\ tx_calls >= 2
    /\ tx_total > TxSize
    /\ Len(armed) >= 3
    /\ armed[Len(armed)].start = 0
    /\ Flat(armed) = Enqueued
    /\ UnsentBytes = 0

\* C24: immediately after init() the transmit-buffer-empty interrupt is
\* disabled, pdc_Tx_in_progress is false, tx head = tx tail = rx tail = 0, the
\* receive PDC is armed for RxSize bytes and the receive-buffer-full
\* interrupt is enabled; and in every state reached from there by whole
\* transmit calls and whole handler runs the transmit-buffer-empty interrupt
\* is enabled exactly when pdc_Tx_in_progress is true.
C24_TxInterruptMatchesInProgress ==
    /\ "TXBUFE" \notin UART_IMR
    /\ pdc_Tx_in_progress = FALSE
    /\ tx_buffer_head_index = 0
    /\ tx_buffer_tail_index = 0
    /\ rx_buffer_tail_index = 0
    /\ PERIPH_RPR = 0
    /\ PERIPH_RCR = RxSize
    /\ "RXBUFF" \in UART_IMR
    /\ []("TXBUFE" \in UART_IMR <=> pdc_Tx_in_progress = TRUE)

\* a transfer has been started, completed and closed, and a second one is in
\* progress with its interrupt enabled
C24_Witness ==
    /\ tx_calls >= 2
    /\ Len(armed) >= 2
    /\ \A k \in 1..Len(armed) : Len(armed[k].data) >= 1
    /\ \E i \in 1..Len(access) : access[i].op = "arm"
    /\ pdc_Tx_in_progress = TRUE
    /\ "TXBUFE" \in UART_IMR
    /\ PERIPH_TCR > 0

====
